---- MODULE Spec2Model ----
(***************************************************************************)
(* State-machine model of the video restoration scripts:                   *)
(*   process_video.py  - preview + best-effort restore pipeline            *)
(*   restore.py        - Real-ESRGAN -> RIFE -> ffmpeg encode              *)
(*   preview.py        - the 10 s preview alone                            *)
(* One step of the model is one step of a script's main(): the input       *)
(* check, one external command (with the outcome the external tool         *)
(* produced), or the cleanup loop.  External tools are the environment:    *)
(* each invocation nondeterministically is not found, exits non-zero, or   *)
(* exits 0, and may or may not leave an output file of some size.          *)
(***************************************************************************)
EXTENDS Integers, Sequences, FiniteSets, TLC

VARIABLES
    prog,       \* which script runs: "process_video", "restore", "preview"
    args,       \* parsed command line (argparse namespace)
    fs,         \* file system: path -> size in bytes, Absent when no file
    current,    \* process_video.py `current` / restore.py `intermediate_file`
    pc,         \* position in main()
    step,       \* position inside the stage at pc (pass / candidate index)
    calls,      \* the commands started so far, in order
    found,      \* number of model entrypoints the probes found on disk
    models,     \* number of model entrypoints the disk holds at most
    peer,       \* a second process_video.py run in the same directory:
                \* "none", or its position "stage", "cleanup", "done"
    last,       \* the most recent external process: its command, the file it
                \* was given to read and how it ended (NoCall before the first)
    exit        \* process exit status, Running until the script ends

vars == <<prog, args, fs, current, pc, step, calls, found, models, peer, last, exit>>

----------------------------------------------------------------------------
(* Constants of the programs *)

MinBytes == 2000

Absent == -1
Running == -1

tmp_stab == "tmp_stab.mp4"
tmp_deno == "tmp_deno.mp4"
tmp_color == "tmp_color.mp4"
tmp_up == "tmp_upscaled.mp4"
tmp_inter == "tmp_interpolated.mp4"
trans == "transforms.trf"
temp_upscaled == "temp_upscaled.mp4"
temp_interpolated == "temp_interpolated.mp4"

TempFiles == <<tmp_stab, tmp_deno, tmp_color, tmp_up, tmp_inter>>

EsrganCandidates ==
    <<"Real-ESRGAN/inference_realesrgan.py", "Real-ESRGAN/inference.py",
      "realesrgan/inference_realesrgan.py">>

RifeCandidates ==
    <<"ECCV2022-RIFE/inference_video.py", "RIFE/inference_video.py",
      "rife/inference_video.py">>

(* Paths given on the command line *)
InputPath == "in.mp4"
PreviewPath == "out/preview.mp4"
RestorePath == "out/restored.mp4"

Paths ==
    {InputPath, PreviewPath, RestorePath, tmp_stab, tmp_deno, tmp_color,
     tmp_up, tmp_inter, trans, temp_upscaled, temp_interpolated}

(* At most this many of the Real-ESRGAN / RIFE entrypoints are on disk *)
MaxModelFiles == 1

(* Sizes the input can have: empty, just below and at the threshold *)
InputSizes == {0, MinBytes - 1, MinBytes}

(* Sizes of a file an external tool leaves: empty, or at the threshold *)
WriteSizes == {0, MinBytes}

----------------------------------------------------------------------------
(* The external tools *)

(* What one external process did: rc is how subprocess.run ended, wrote is  *)
(* the size of the output file it left (Absent: it wrote none).            *)
Outcomes ==
    {[rc |-> "missing", wrote |-> Absent]}
    \cup [rc : {"fail"}, wrote : {Absent}]
    \cup [rc : {"ok"}, wrote : {Absent} \cup WriteSizes]

(* The file system after a process with outcome o that writes to dst *)
Written(f, dst, o) ==
    IF o.wrote = Absent THEN f ELSE [f EXCEPT ![dst] = o.wrote]

(* A command of the scripts: cmd names the argv shape, cand is the index of *)
(* the candidate entrypoint it runs (0 for ffmpeg commands)                *)
Call(cmd, cand) == [cmd |-> cmd, cand |-> cand]

(* subprocess.run(argv) with input file src, ended as outcome o says *)
Ran(cmd, cand, src, o) == [cmd |-> cmd, cand |-> cand, src |-> src, rc |-> o.rc]

NoCall == [cmd |-> "none", cand |-> 0, src |-> "", rc |-> "none"]

(* os.path.isfile / os.path.exists of a model entrypoint: the answers the  *)
(* disk can give to the next probe                                         *)
Probe == IF found < models THEN BOOLEAN ELSE {FALSE}

Found(isthere) == IF isthere THEN found + 1 ELSE found

(* safe_run: True iff the process ran and returned 0 *)
safe_run(o) == o.rc = "ok"

exists(f, path) == f[path] # Absent

(* exists_and_size without its size test *)
exists_and_size_NoSize(f, path, min_bytes) == exists(f, path)

exists_and_size(f, path, min_bytes) ==
    exists(f, path) /\ f[path] >= min_bytes

----------------------------------------------------------------------------
(* Initial states *)

ArgSpace ==
    [input : {InputPath}, preview : BOOLEAN, restore : BOOLEAN,
     stabilize : BOOLEAN, denoise : BOOLEAN, color : BOOLEAN,
     upscale : BOOLEAN, interpolate : BOOLEAN, skip_models : BOOLEAN,
     keep_temp : BOOLEAN, skip_rife : {FALSE}]

RestoreArgSpace ==
    [input : {InputPath}, preview : {FALSE}, restore : {TRUE},
     stabilize : {FALSE}, denoise : {FALSE}, color : {FALSE},
     upscale : {FALSE}, interpolate : {FALSE}, skip_models : {FALSE},
     keep_temp : {FALSE}, skip_rife : BOOLEAN]

(* preview.py takes --input and --output only *)
PreviewArgSpace ==
    [input : {InputPath}, preview : {TRUE}, restore : {FALSE},
     stabilize : {FALSE}, denoise : {FALSE}, color : {FALSE},
     upscale : {FALSE}, interpolate : {FALSE}, skip_models : {FALSE},
     keep_temp : {FALSE}, skip_rife : {FALSE}]

EmptyDisk == [p \in Paths |-> Absent]

Init ==
    /\ prog \in {"process_video", "restore", "preview"}
    /\ args \in (CASE prog = "process_video" -> ArgSpace
                  [] prog = "restore" -> RestoreArgSpace
                  [] prog = "preview" -> PreviewArgSpace)
    /\ models = MaxModelFiles
    /\ peer = "none"
    /\ \E sz \in {Absent} \cup InputSizes : fs = [EmptyDisk EXCEPT ![InputPath] = sz]
    /\ current = InputPath
    /\ pc = "validate"
    /\ step = 0
    /\ calls = <<>>
    /\ found = 0
    /\ last = NoCall
    /\ exit = Running

----------------------------------------------------------------------------
(* process_video.py *)

(* main: input check *)
Validate ==
    /\ prog = "process_video"
    /\ pc = "validate"
    /\ IF ~exists_and_size(fs, args.input, MinBytes)
       THEN /\ exit' = 2
            /\ pc' = "done"
       ELSE /\ pc' = "preview"
            /\ exit' = exit
    /\ current' = args.input
    /\ UNCHANGED <<prog, args, models, peer, fs, step, calls, found, last>>

(* Preview whose failure ends the run before the restore block *)
Preview_FailureSkipsRestore ==
    /\ prog = "process_video"
    /\ pc = "preview"
    /\ \E o \in Outcomes :
        IF args.preview
        THEN /\ calls' = Append(calls, Call("preview", 0))
             /\ last' = Ran("preview", 0, current, o)
             /\ fs' = Written(fs, PreviewPath, o)
             /\ pc' = IF args.restore /\ safe_run(o) THEN "stabilize" ELSE "cleanup"
        ELSE /\ UNCHANGED <<calls, fs, last>>
             /\ pc' = IF args.restore THEN "stabilize" ELSE "cleanup"
    /\ UNCHANGED <<prog, args, models, peer, current, step, found, exit>>

(* main: PREVIEW block, run_preview *)
Preview ==
    /\ prog = "process_video"
    /\ pc = "preview"
    /\ \E o \in Outcomes :
        IF args.preview
        THEN /\ calls' = Append(calls, Call("preview", 0))
             /\ last' = Ran("preview", 0, current, o)
             /\ fs' = Written(fs, PreviewPath, o)
        ELSE UNCHANGED <<calls, fs, last>>
    /\ pc' = IF args.restore THEN "stabilize" ELSE "cleanup"
    /\ UNCHANGED <<prog, args, models, peer, current, step, found, exit>>

(* main: 1) Stabilize, do_stabilize (two ffmpeg passes) *)
Stabilize ==
    /\ prog = "process_video"
    /\ pc = "stabilize"
    /\ \E o \in Outcomes :
        IF ~args.stabilize
        THEN /\ pc' = "denoise"
             /\ UNCHANGED <<fs, current, step, calls, last>>
        ELSE IF step = 0
        THEN \* pass 1: vidstabdetect writes the transforms file
             /\ calls' = Append(calls, Call("vidstabdetect", 0))
             /\ last' = Ran("vidstabdetect", 0, current, o)
             /\ fs' = Written(fs, trans, o)
             /\ step' = 1
             /\ UNCHANGED <<pc, current>>
        ELSE \* pass 2: vidstabtransform writes outfile
             LET f2 == Written(fs, tmp_stab, o)
                 ok2 == safe_run(o)
                 done == ok2 /\ exists(f2, tmp_stab)
             IN  /\ calls' = Append(calls, Call("vidstabtransform", 0))
                 /\ last' = Ran("vidstabtransform", 0, current, o)
                 /\ fs' = IF done THEN [f2 EXCEPT ![trans] = Absent] ELSE f2
                 /\ current' = IF done THEN tmp_stab ELSE current
                 /\ step' = 0
                 /\ pc' = "denoise"
    /\ UNCHANGED <<prog, args, models, peer, found, exit>>

(* Denoise that does not test args.denoise *)
Denoise_IgnoresFlag ==
    /\ prog = "process_video"
    /\ pc = "denoise"
    /\ \E o \in Outcomes :
        /\ calls' = Append(calls, Call("denoise", 0))
        /\ last' = Ran("denoise", 0, current, o)
        /\ fs' = Written(fs, tmp_deno, o)
        /\ current' = IF safe_run(o) THEN tmp_deno ELSE current
    /\ pc' = "color"
    /\ UNCHANGED <<prog, args, models, peer, step, found, exit>>

(* main: 2) Denoise, do_denoise(method="hqdn3d") *)
Denoise ==
    /\ prog = "process_video"
    /\ pc = "denoise"
    /\ \E o \in Outcomes :
        IF ~args.denoise
        THEN UNCHANGED <<fs, current, calls, last>>
        ELSE /\ calls' = Append(calls, Call("denoise", 0))
             /\ last' = Ran("denoise", 0, current, o)
             /\ fs' = Written(fs, tmp_deno, o)
             /\ current' = IF safe_run(o) THEN tmp_deno ELSE current
    /\ pc' = "color"
    /\ UNCHANGED <<prog, args, models, peer, step, found, exit>>

(* Color that makes its output current whatever do_color_and_sharpen says *)
Color_AlwaysAdvances ==
    /\ prog = "process_video"
    /\ pc = "color"
    /\ \E o \in Outcomes :
        IF ~args.color
        THEN UNCHANGED <<fs, current, calls, last>>
        ELSE /\ calls' = Append(calls, Call("color", 0))
             /\ last' = Ran("color", 0, current, o)
             /\ fs' = Written(fs, tmp_color, o)
             /\ current' = tmp_color
    /\ pc' = "upscale"
    /\ UNCHANGED <<prog, args, models, peer, step, found, exit>>

(* main: 3) Color & sharpen, do_color_and_sharpen *)
Color ==
    /\ prog = "process_video"
    /\ pc = "color"
    /\ \E o \in Outcomes :
        IF ~args.color
        THEN UNCHANGED <<fs, current, calls, last>>
        ELSE /\ calls' = Append(calls, Call("color", 0))
             /\ last' = Ran("color", 0, current, o)
             /\ fs' = Written(fs, tmp_color, o)
             /\ current' = IF safe_run(o) THEN tmp_color ELSE current
    /\ pc' = "upscale"
    /\ UNCHANGED <<prog, args, models, peer, step, found, exit>>

(* Upscale that goes on to the next candidate after a success too *)
Upscale_KeepsTrying ==
    /\ prog = "process_video"
    /\ pc = "upscale"
    /\ \E o \in Outcomes, isfile \in Probe :
        IF step = 0
        THEN /\ IF args.upscale /\ ~args.skip_models
                THEN step' = 1 /\ pc' = pc
                ELSE step' = 0 /\ pc' = "interpolate"
             /\ UNCHANGED <<fs, current, calls, found, last>>
        ELSE IF step <= Len(EsrganCandidates)
        THEN IF isfile
             THEN LET f2 == Written(fs, tmp_up, o)
                      ok == safe_run(o)
                      done == ok /\ exists(f2, tmp_up)
                  IN  /\ calls' = Append(calls, Call("realesrgan", step))
                      /\ last' = Ran("realesrgan", step, current, o)
                      /\ fs' = f2
                      /\ current' = IF done THEN tmp_up ELSE current
                      /\ step' = step + 1
                      /\ pc' = pc
                      /\ found' = Found(isfile)
             ELSE /\ step' = step + 1
                  /\ UNCHANGED <<fs, current, calls, pc, found, last>>
        ELSE /\ calls' = Append(calls, Call("upscale_fallback", 0))
             /\ last' = Ran("upscale_fallback", 0, current, o)
             /\ fs' = Written(fs, tmp_up, o)
             /\ current' = IF safe_run(o) THEN tmp_up ELSE current
             /\ step' = 0
             /\ pc' = "interpolate"
             /\ found' = found
    /\ UNCHANGED <<prog, args, models, peer, exit>>

(* Upscale without the ffmpeg scale fallback after the candidates *)
Upscale_NoFallback ==
    /\ prog = "process_video"
    /\ pc = "upscale"
    /\ \E o \in Outcomes, isfile \in Probe :
        IF step = 0
        THEN /\ IF args.upscale /\ ~args.skip_models
                THEN step' = 1 /\ pc' = pc
                ELSE step' = 0 /\ pc' = "interpolate"
             /\ UNCHANGED <<fs, current, calls, found, last>>
        ELSE IF step <= Len(EsrganCandidates)
        THEN IF isfile
             THEN LET f2 == Written(fs, tmp_up, o)
                      ok == safe_run(o)
                      done == ok /\ exists(f2, tmp_up)
                  IN  /\ calls' = Append(calls, Call("realesrgan", step))
                      /\ last' = Ran("realesrgan", step, current, o)
                      /\ fs' = f2
                      /\ current' = IF done THEN tmp_up ELSE current
                      /\ step' = IF done THEN 0 ELSE step + 1
                      /\ pc' = IF done THEN "interpolate" ELSE pc
                      /\ found' = Found(isfile)
             ELSE /\ step' = step + 1
                  /\ UNCHANGED <<fs, current, calls, pc, found, last>>
        ELSE /\ step' = 0
             /\ pc' = "interpolate"
             /\ UNCHANGED <<fs, current, calls, found, last>>
    /\ UNCHANGED <<prog, args, models, peer, exit>>

(* main: 4) Upscale, try_realesrgan.  step 0 is the test of the flags,     *)
(* step c in 1..3 probes and runs candidate c, the step after the last     *)
(* candidate is the ffmpeg scale fallback.                                 *)
Upscale ==
    /\ prog = "process_video"
    /\ pc = "upscale"
    /\ \E o \in Outcomes, isfile \in Probe :
        IF step = 0
        THEN /\ IF args.upscale /\ ~args.skip_models
                THEN step' = 1 /\ pc' = pc
                ELSE step' = 0 /\ pc' = "interpolate"
             /\ UNCHANGED <<fs, current, calls, found, last>>
        ELSE IF step <= Len(EsrganCandidates)
        THEN IF isfile
             THEN LET f2 == Written(fs, tmp_up, o)
                      ok == safe_run(o)
                      done == ok /\ exists(f2, tmp_up)
                  IN  /\ calls' = Append(calls, Call("realesrgan", step))
                      /\ last' = Ran("realesrgan", step, current, o)
                      /\ fs' = f2
                      /\ current' = IF done THEN tmp_up ELSE current
                      /\ step' = IF done THEN 0 ELSE step + 1
                      /\ pc' = IF done THEN "interpolate" ELSE pc
                      /\ found' = Found(isfile)
             ELSE /\ step' = step + 1
                  /\ UNCHANGED <<fs, current, calls, pc, found, last>>
        ELSE /\ calls' = Append(calls, Call("upscale_fallback", 0))
             /\ last' = Ran("upscale_fallback", 0, current, o)
             /\ fs' = Written(fs, tmp_up, o)
             /\ current' = IF safe_run(o) THEN tmp_up ELSE current
             /\ step' = 0
             /\ pc' = "interpolate"
             /\ found' = found
    /\ UNCHANGED <<prog, args, models, peer, exit>>

(* main: 5) Interpolate, try_rife_interpolate.  step 0 is the test of the  *)
(* flags; candidate c is probed and run at step 2c-1 (first argument       *)
(* variant) and run again at step 2c (alternative variant).                *)
Interpolate ==
    /\ prog = "process_video"
    /\ pc = "interpolate"
    /\ \E o \in Outcomes, isfile \in Probe :
        LET c == (step + 1) \div 2
            first == step % 2 = 1
            f2 == Written(fs, tmp_inter, o)
            done == safe_run(o) /\ exists(f2, tmp_inter)
            lastc == c = Len(RifeCandidates)
        IN
        IF step = 0
        THEN /\ IF args.interpolate /\ ~args.skip_models
                THEN step' = 1 /\ pc' = pc
                ELSE step' = 0 /\ pc' = "final"
             /\ UNCHANGED <<fs, current, calls, found, last>>
        ELSE IF first /\ ~isfile
        THEN \* candidate c is no file: next candidate, or return False
             /\ step' = IF lastc THEN 0 ELSE step + 2
             /\ pc' = IF lastc THEN "final" ELSE pc
             /\ UNCHANGED <<fs, current, calls, found, last>>
        ELSE /\ calls' = Append(calls, Call(IF first THEN "rife" ELSE "rife_alt", c))
             /\ last' = Ran(IF first THEN "rife" ELSE "rife_alt", c, current, o)
             /\ fs' = f2
             /\ current' = IF done THEN tmp_inter ELSE current
             /\ step' = IF done \/ (lastc /\ ~first) THEN 0 ELSE step + 1
             /\ pc' = IF done \/ (lastc /\ ~first) THEN "final" ELSE pc
             /\ found' = IF first THEN Found(isfile) ELSE found
    /\ UNCHANGED <<prog, args, models, peer, exit>>

(* Final encode that is skipped when no stage advanced the artifact *)
FinalEncode_SkipsUnchanged ==
    /\ prog = "process_video"
    /\ pc = "final"
    /\ \E o \in Outcomes :
        IF current = args.input
        THEN UNCHANGED <<calls, last, fs>>
        ELSE /\ calls' = Append(calls, Call("final_encode", 0))
             /\ last' = Ran("final_encode", 0, current, o)
             /\ fs' = Written(fs, RestorePath, o)
    /\ pc' = "cleanup"
    /\ UNCHANGED <<prog, args, models, peer, current, step, found, exit>>

(* main: 6) Final encode, final_encode *)
FinalEncode ==
    /\ prog = "process_video"
    /\ pc = "final"
    /\ \E o \in Outcomes :
        /\ calls' = Append(calls, Call("final_encode", 0))
        /\ last' = Ran("final_encode", 0, current, o)
        /\ fs' = Written(fs, RestorePath, o)
    /\ pc' = "cleanup"
    /\ UNCHANGED <<prog, args, models, peer, current, step, found, exit>>

RECURSIVE RemoveAll(_, _)
RemoveAll(f, files) ==
    IF files = <<>> THEN f
    ELSE RemoveAll([f EXCEPT ![Head(files)] = Absent], Tail(files))

(* main: Cleanup, then main returns and the interpreter exits with 0 *)
Cleanup ==
    /\ prog = "process_video"
    /\ pc = "cleanup"
    /\ fs' = IF ~args.keep_temp THEN RemoveAll(fs, TempFiles) ELSE fs
    /\ pc' = "done"
    /\ exit' = 0
    /\ UNCHANGED <<prog, args, models, peer, current, step, calls, found, last>>

----------------------------------------------------------------------------
(* restore.py *)

(* run_cmd returns nothing: whatever the process did, main goes on *)
run_cmd(f, dst, o) == Written(f, dst, o)

(* main: input check *)
RsValidate ==
    /\ prog = "restore"
    /\ pc = "validate"
    /\ IF ~exists(fs, args.input)
       THEN exit' = 1 /\ pc' = "done"
       ELSE exit' = exit /\ pc' = "rs_upscale"
    /\ UNCHANGED <<prog, args, models, peer, fs, current, step, calls, found, last>>

(* main: Step 1, Real-ESRGAN if its directory is there, else copy the input *)
RsUpscale ==
    /\ prog = "restore"
    /\ pc = "rs_upscale"
    /\ \E o \in Outcomes, isdir \in Probe :
        /\ IF isdir
           THEN /\ calls' = Append(calls, Call("realesrgan", 1))
                /\ last' = Ran("realesrgan", 1, args.input, o)
                /\ fs' = run_cmd(fs, temp_upscaled, o)
           ELSE /\ fs' = [fs EXCEPT ![temp_upscaled] = fs[args.input]]
                /\ calls' = calls
                /\ last' = last
        /\ found' = Found(isdir)
    /\ pc' = "rs_rife"
    /\ UNCHANGED <<prog, args, models, peer, current, step, exit>>

(* main: Step 2, RIFE unless skipped or its directory is not there *)
RsInterpolate ==
    /\ prog = "restore"
    /\ pc = "rs_rife"
    /\ \E o \in Outcomes, isdir \in Probe :
        IF ~args.skip_rife /\ isdir
        THEN /\ calls' = Append(calls, Call("rife", 1))
             /\ last' = Ran("rife", 1, temp_upscaled, o)
             /\ fs' = run_cmd(fs, temp_interpolated, o)
             /\ current' = temp_interpolated
             /\ found' = Found(isdir)
        ELSE /\ current' = temp_upscaled
             /\ UNCHANGED <<fs, calls, found, last>>
    /\ pc' = "rs_encode"
    /\ UNCHANGED <<prog, args, models, peer, step, exit>>

(* main: Step 3, encode, then main returns and the interpreter exits with 0 *)
RsEncode ==
    /\ prog = "restore"
    /\ pc = "rs_encode"
    /\ \E o \in Outcomes :
        /\ calls' = Append(calls, Call("final_encode", 0))
        /\ last' = Ran("final_encode", 0, current, o)
        /\ fs' = run_cmd(fs, RestorePath, o)
    /\ pc' = "done"
    /\ exit' = 0
    /\ UNCHANGED <<prog, args, models, peer, current, step, found>>

----------------------------------------------------------------------------
(* preview.py *)

(* module body: input check *)
PwValidate ==
    /\ prog = "preview"
    /\ pc = "validate"
    /\ IF ~exists(fs, args.input)
       THEN exit' = 2 /\ pc' = "done"
       ELSE exit' = exit /\ pc' = "pw_run"
    /\ UNCHANGED <<prog, args, models, peer, fs, current, step, calls, found, last>>

(* module body: subprocess.run(cmd, check=True); an exception is not       *)
(* caught, so the interpreter ends with status 1                           *)
PwRun ==
    /\ prog = "preview"
    /\ pc = "pw_run"
    /\ \E o \in Outcomes :
        /\ calls' = Append(calls, Call("preview", 0))
        /\ last' = Ran("preview", 0, args.input, o)
        /\ fs' = Written(fs, PreviewPath, o)
        /\ exit' = IF o.rc = "ok" THEN 0 ELSE 1
    /\ pc' = "done"
    /\ UNCHANGED <<prog, args, models, peer, current, step, found>>

----------------------------------------------------------------------------

Next ==
    \/ Validate
    \/ Preview
    \/ Stabilize
    \/ Denoise
    \/ Color
    \/ Upscale
    \/ Interpolate
    \/ FinalEncode
    \/ Cleanup
    \/ RsValidate
    \/ RsUpscale
    \/ RsInterpolate
    \/ RsEncode
    \/ PwValidate
    \/ PwRun

Spec == Init /\ [][Next]_vars

----------------------------------------------------------------------------
(***************************************************************************)
(* A run whose --input is a file named like one of the temp files of main, *)
(* here tmp_color.mp4 in the working directory.                            *)
(***************************************************************************)
AliasArgSpace ==
    [input : {tmp_color}, preview : {FALSE}, restore : {TRUE},
     stabilize : {FALSE}, denoise : BOOLEAN, color : BOOLEAN,
     upscale : BOOLEAN, interpolate : {FALSE}, skip_models : BOOLEAN,
     keep_temp : BOOLEAN, skip_rife : {FALSE}]

InitAlias ==
    /\ prog \in {"process_video", "restore", "preview"}
    /\ args \in (CASE prog = "process_video" -> AliasArgSpace
                  [] prog = "restore" -> RestoreArgSpace
                  [] prog = "preview" -> PreviewArgSpace)
    /\ models = MaxModelFiles
    /\ peer = "none"
    /\ fs = [EmptyDisk EXCEPT ![args.input] = MinBytes]
    /\ current = args.input
    /\ pc = "validate"
    /\ step = 0
    /\ calls = <<>>
    /\ found = 0
    /\ last = NoCall
    /\ exit = Running

SpecAlias == InitAlias /\ [][Next]_vars

----------------------------------------------------------------------------
(***************************************************************************)
(* External processes that never exit.  safe_run, run_cmd and preview.py   *)
(* call subprocess.run without a timeout argument, so the script waits in  *)
(* that call for as long as the child lives.  Hang is such a call: it is   *)
(* possible wherever a step of the script invokes a command, and the       *)
(* script takes no further step after it.                                  *)
(***************************************************************************)
Hang ==
    /\ pc # "blocked"
    /\ ENABLED (Next /\ calls' # calls)
    /\ pc' = "blocked"
    /\ UNCHANGED <<prog, args, models, peer, fs, current, step, calls, found, last, exit>>

HangArgSpace ==
    [input : {InputPath}, preview : BOOLEAN, restore : {TRUE},
     stabilize : BOOLEAN, denoise : BOOLEAN, color : {FALSE},
     upscale : BOOLEAN, interpolate : BOOLEAN, skip_models : {FALSE},
     keep_temp : {FALSE}, skip_rife : {FALSE}]

InitHang ==
    /\ prog \in {"process_video", "restore", "preview"}
    /\ args \in (CASE prog = "process_video" -> HangArgSpace
                  [] prog = "restore" -> RestoreArgSpace
                  [] prog = "preview" -> PreviewArgSpace)
    /\ models = MaxModelFiles
    /\ peer = "none"
    /\ fs = [EmptyDisk EXCEPT ![InputPath] = MinBytes]
    /\ current = InputPath
    /\ pc = "validate"
    /\ step = 0
    /\ calls = <<>>
    /\ found = 0
    /\ last = NoCall
    /\ exit = Running

NextHang == Next \/ Hang

SpecHang == InitHang /\ [][NextHang]_vars

----------------------------------------------------------------------------
(***************************************************************************)
(* A working directory that holds one model entrypoint more than the       *)
(* general specification allows, so that a stage can find a second         *)
(* candidate after the first one it ran.                                   *)
(***************************************************************************)
ModelsArgSpace ==
    [input : {InputPath}, preview : {FALSE}, restore : {TRUE},
     stabilize : {FALSE}, denoise : {FALSE}, color : {FALSE},
     upscale : BOOLEAN, interpolate : BOOLEAN, skip_models : BOOLEAN,
     keep_temp : {FALSE}, skip_rife : {FALSE}]

InitModels ==
    /\ prog \in {"process_video", "restore", "preview"}
    /\ args \in (CASE prog = "process_video" -> ModelsArgSpace
                  [] prog = "restore" -> RestoreArgSpace
                  [] prog = "preview" -> PreviewArgSpace)
    /\ models = MaxModelFiles + 1
    /\ peer = "none"
    /\ fs = [EmptyDisk EXCEPT ![InputPath] = MinBytes]
    /\ current = InputPath
    /\ pc = "validate"
    /\ step = 0
    /\ calls = <<>>
    /\ found = 0
    /\ last = NoCall
    /\ exit = Running

SpecModels == InitModels /\ [][Next]_vars

----------------------------------------------------------------------------
(***************************************************************************)
(* Two runs of process_video.py in one working directory.  The temp names  *)
(* of main are string literals, so the second run uses the same five       *)
(* paths.  The second run is reduced to what it does to those paths: one   *)
(* stage command that writes its temp file, then the cleanup loop.  Its    *)
(* files carry a size of their own so that they can be told apart.         *)
(***************************************************************************)
PeerSize == MinBytes + 1

TempSet == {TempFiles[i] : i \in DOMAIN TempFiles}

(* a stage command of the second run writes one of tmp_*.mp4 *)
PeerStage ==
    /\ peer = "stage"
    /\ \E p \in TempSet : fs' = [fs EXCEPT ![p] = PeerSize]
    /\ peer' = "cleanup"
    /\ UNCHANGED <<prog, args, models, current, pc, step, calls, found, last, exit>>

(* the cleanup loop of the second run *)
PeerCleanup ==
    /\ peer = "cleanup"
    /\ fs' = RemoveAll(fs, TempFiles)
    /\ peer' = "done"
    /\ UNCHANGED <<prog, args, models, current, pc, step, calls, found, last, exit>>

ConcurrentArgSpace ==
    [input : {InputPath}, preview : {FALSE}, restore : {TRUE},
     stabilize : {FALSE}, denoise : BOOLEAN, color : BOOLEAN,
     upscale : {FALSE}, interpolate : {FALSE}, skip_models : {FALSE},
     keep_temp : BOOLEAN, skip_rife : {FALSE}]

InitConcurrent ==
    /\ prog \in {"process_video", "restore", "preview"}
    /\ args \in (CASE prog = "process_video" -> ConcurrentArgSpace
                  [] prog = "restore" -> RestoreArgSpace
                  [] prog = "preview" -> PreviewArgSpace)
    /\ models = MaxModelFiles
    /\ peer = IF prog = "process_video" THEN "stage" ELSE "none"
    /\ fs = [EmptyDisk EXCEPT ![InputPath] = MinBytes]
    /\ current = InputPath
    /\ pc = "validate"
    /\ step = 0
    /\ calls = <<>>
    /\ found = 0
    /\ last = NoCall
    /\ exit = Running

NextConcurrent == Next \/ PeerStage \/ PeerCleanup

SpecConcurrent == InitConcurrent /\ [][NextConcurrent]_vars

----------------------------------------------------------------------------
(* Vocabulary of the properties *)

PV == prog = "process_video"

Invoked(cmd) == \E i \in DOMAIN calls : calls[i].cmd = cmd

Count(cmd) == Cardinality({i \in DOMAIN calls : calls[i].cmd = cmd})

IsRestoreCall(c) == c.cmd # "preview"

RestoreCalls == SelectSeq(calls, IsRestoreCall)

(* The output file each command is given *)
Dst(cmd) ==
    CASE cmd = "preview" -> PreviewPath
      [] cmd = "vidstabdetect" -> trans
      [] cmd = "vidstabtransform" -> tmp_stab
      [] cmd = "denoise" -> tmp_deno
      [] cmd = "color" -> tmp_color
      [] cmd \in {"realesrgan", "upscale_fallback"} -> tmp_up
      [] cmd \in {"rife", "rife_alt", "interpolate_fallback"} -> tmp_inter
      [] OTHER -> RestorePath

(* The commands of the stages whose enable flag is off *)
DisabledCmds ==
    (IF args.stabilize THEN {} ELSE {"vidstabdetect", "vidstabtransform"})
    \cup (IF args.denoise THEN {} ELSE {"denoise"})
    \cup (IF args.color THEN {} ELSE {"color"})
    \cup (IF args.upscale THEN {} ELSE {"realesrgan", "upscale_fallback"})
    \cup (IF args.interpolate THEN {} ELSE {"rife", "rife_alt"})

(* main is about to execute a stage whose enable flag is off *)
AtDisabledStage ==
    \/ pc = "stabilize" /\ ~args.stabilize
    \/ pc = "denoise" /\ ~args.denoise
    \/ pc = "color" /\ ~args.color
    \/ pc = "upscale" /\ ~args.upscale
    \/ pc = "interpolate" /\ ~args.interpolate

AllStagesOff ==
    /\ ~args.stabilize /\ ~args.denoise /\ ~args.color
    /\ ~args.upscale /\ ~args.interpolate

TempsRemoved == \A i \in DOMAIN TempFiles : fs[TempFiles[i]] = Absent

----------------------------------------------------------------------------
(* C1: in a restore run of process_video.py whose input passed validation, *)
(* final-encode is invoked exactly once, whatever the stage flags and      *)
(* whatever the earlier commands did: no final-encode before the end of    *)
(* the stage sequence, exactly one from then on.                           *)
C1_FinalEncodeExactlyOnce ==
    (PV /\ args.restore /\ exit # 2) =>
        Count("final_encode") = IF pc \in {"cleanup", "done"} THEN 1 ELSE 0

(* a finished restore run in which stabilize, denoise and upscale were all *)
(* tried and none advanced the artifact, color being off                   *)
C1_Witness ==
    /\ PV /\ pc = "done" /\ exit = 0 /\ args.restore
    /\ args.stabilize /\ args.denoise /\ ~args.color /\ args.upscale
    /\ ~args.skip_models
    /\ Invoked("vidstabtransform") /\ Invoked("denoise") /\ Invoked("realesrgan")
    /\ current = args.input
    /\ Count("final_encode") = 1

(* C2: an input that is missing or smaller than 2000 bytes ends            *)
(* process_video.py with exit status 2 at the input check, no external     *)
(* process has been started by then, and nothing runs afterwards.          *)
C2_InvalidInputExits2 ==
    [][PV =>
        /\ (pc = "validate" /\ (fs[args.input] = Absent \/ fs[args.input] < 2000))
              => (exit' = 2 /\ pc' = "done" /\ calls' = <<>> /\ last' = NoCall)
        /\ exit # 2]_vars

(* the run of an input of 1999 bytes has ended with status 2 *)
C2_Witness ==
    /\ PV /\ pc = "done" /\ exit = 2
    /\ fs[args.input] = 1999
    /\ args.preview /\ args.restore
    /\ calls = <<>>

(* C3: a stage's output becomes the current artifact only if the file      *)
(* passes validation (exists, size >= 2000): a stage whose command exits 0 *)
(* but leaves no file, or too small a file, keeps the prior artifact.      *)
C3_AdvanceOnlyIfValid ==
    [][(PV /\ current' # current)
          => (fs'[current'] # Absent /\ fs'[current'] >= 2000)]_vars

(* C4: whenever a command reads an artifact (a stage or the final encode,  *)
(* in process_video.py and in restore.py), that file exists and is not     *)
(* empty, the input itself being a non-empty file.                         *)
C4_ReadArtifactExists ==
    [][(calls' # calls /\ fs[args.input] > 0)
          => (fs[last'.src] # Absent /\ fs[last'.src] > 0)]_vars

(* C5: a stage whose enable flag is off invokes none of its commands (no   *)
(* command started is one of a disabled stage) and leaves the current      *)
(* artifact as it was; with every optional stage off and restore           *)
(* requested, the restore pipeline invokes final-encode alone, on the      *)
(* original input: nothing but the preview before it, nothing after it.    *)
C5_DisabledStageIsSkipped ==
    [][PV =>
        /\ calls' # calls =>
              /\ calls' = Append(calls, Call(last'.cmd, last'.cand))
              /\ last'.cmd \notin DisabledCmds
        /\ AtDisabledStage => (current' = current /\ calls' = calls /\ fs' = fs)
        /\ (AllStagesOff /\ args.restore /\ pc = "final") =>
              /\ RestoreCalls = <<>>
              /\ calls' = Append(calls, Call("final_encode", 0))
              /\ last'.src = args.input
        /\ pc \in {"cleanup", "done"} => calls' = calls]_vars

(* a finished preview + restore run with every optional stage off *)
C5_Witness ==
    /\ PV /\ pc = "done" /\ exit = 0
    /\ AllStagesOff /\ args.restore /\ args.preview
    /\ calls = <<Call("preview", 0), Call("final_encode", 0)>>
    /\ last.src = args.input

(* C6: with upscale enabled, the upscale stage ends either with a          *)
(* Real-ESRGAN run that succeeded or with the ffmpeg scale fallback; a     *)
(* fallback that succeeds advances the artifact to its output; and the     *)
(* artifact never advances to an upscale output that is not on disk.       *)
C6_UpscaleFallback ==
    [][PV =>
        /\ (pc = "upscale" /\ pc' = "interpolate" /\ args.upscale)
              => \/ last'.cmd = "realesrgan" /\ last'.rc = "ok"
                 \/ /\ calls' = Append(calls, Call("upscale_fallback", 0))
                    /\ last'.rc = "ok" => current' = tmp_up
        /\ (current' = tmp_up /\ current # tmp_up) => fs'[tmp_up] # Absent]_vars

(* C7: with interpolate enabled (and the models not skipped, so that the   *)
(* RIFE candidates are looked for), the interpolate stage ends either with *)
(* a RIFE run that succeeded or with the ffmpeg motion-interpolation       *)
(* fallback, whose success advances the artifact to its output.            *)
C7_InterpolateFallback ==
    [][(PV /\ pc = "interpolate" /\ pc' = "final" /\ args.interpolate
           /\ ~args.skip_models)
          => \/ /\ last'.cmd \in {"rife", "rife_alt"}
                /\ last'.rc = "ok"
                /\ current' = tmp_inter
             \/ /\ calls' = Append(calls, Call("interpolate_fallback", 0))
                /\ last'.rc = "ok" => current' = Dst("interpolate_fallback")]_vars

(* C8: with --skip-models and --upscale, no Real-ESRGAN candidate is       *)
(* probed or invoked, and the upscale stage runs the ffmpeg scale fallback *)
(* directly.                                                               *)
C8_SkipModelsRunsFallback ==
    [][(PV /\ args.upscale /\ args.skip_models)
          => /\ ~Invoked("realesrgan")'
             /\ found' = found
             /\ (pc = "upscale" /\ pc' = "interpolate")
                   => calls' = Append(calls, Call("upscale_fallback", 0))]_vars

(* C9: a run whose final-encode did not succeed ends with exit status 1,   *)
(* a run ends with status 0 only if its final-encode succeeded or no       *)
(* restore was requested, and process_video.py has removed its temporaries *)
(* by then unless they are kept.                                           *)
C9_ExitStatusOfFinalEncode ==
    (pc = "done" /\ Invoked("final_encode")) =>
        /\ last.cmd = "final_encode"
        /\ last.rc # "ok" => exit = 1
        /\ exit = 0 => last.rc = "ok"
        /\ (PV /\ ~args.keep_temp) => TempsRemoved

(* C10: a failed command of an optional stage (tool missing, non-zero      *)
(* exit, or an output that fails validation) leaves the current artifact   *)
(* unchanged and does not end the run, and every restore run that passed   *)
(* the input check reaches final-encode.                                   *)
C10_StageFailureNeverAborts ==
    [][(PV /\ args.restore) =>
        /\ ( /\ calls' # calls
             /\ last'.cmd \notin {"preview", "final_encode"}
             /\ \/ last'.rc # "ok"
                \/ fs'[Dst(last'.cmd)] = Absent
                \/ fs'[Dst(last'.cmd)] < 2000 )
              => (current' = current /\ pc' # "done" /\ exit' = Running)
        /\ (pc' = "done" /\ exit' # 2) => Invoked("final_encode")']_vars

(* C11: when temporaries are not kept, a finished run of process_video.py  *)
(* that passed the input check leaves nothing behind but the preview and   *)
(* restore outputs: every stage temp file and the stabilization transforms *)
(* file are gone, whatever the stages' outcomes were.                      *)
C11_NothingLeftBehind ==
    (PV /\ pc = "done" /\ exit # 2 /\ ~args.keep_temp) =>
        \A p \in Paths \ {args.input, PreviewPath, RestorePath} :
            fs[p] = Absent

(* C12: two concurrent runs of process_video.py never touch each other's   *)
(* temp files: a step of the other run leaves every temp file this run has *)
(* written as it is, and no command of this run, final-encode included,    *)
(* reads a file the other run wrote.                                       *)
C12_RunsAreIsolated ==
    [][PV =>
        /\ peer' # peer =>
              \A p \in TempSet : fs[p] \in WriteSizes => fs'[p] = fs[p]
        /\ calls' # calls => fs[last'.src] # PeerSize]_vars

(* position of a command in the pipeline order of main *)
Rank(cmd) ==
    CASE cmd = "preview" -> 0
      [] cmd = "vidstabdetect" -> 1
      [] cmd = "vidstabtransform" -> 2
      [] cmd = "denoise" -> 3
      [] cmd = "color" -> 4
      [] cmd = "realesrgan" -> 5
      [] cmd = "upscale_fallback" -> 6
      [] cmd \in {"rife", "rife_alt"} -> 7
      [] cmd = "final_encode" -> 8
      [] OTHER -> 9

Neural == {"realesrgan", "rife", "rife_alt"}

ScenarioA ==
    /\ PV /\ args.restore /\ args.denoise /\ args.upscale
    /\ ~args.preview /\ ~args.stabilize /\ ~args.color /\ ~args.interpolate
    /\ ~args.skip_models
    /\ ~Invoked("realesrgan")

(* C13: process_video.py invokes its commands in the fixed order stabilize,*)
(* denoise, color+sharpen, upscale, interpolate, final-encode, each one    *)
(* reading the artifact that is current when it starts; with only denoise  *)
(* and upscale enabled, no upscale tool on disk and models not skipped,    *)
(* the finished run invoked exactly denoise, the geometric-resize          *)
(* fallback and final-encode, in that order.                               *)
C13_FixedStageOrder ==
    [][PV =>
        /\ calls' # calls =>
              /\ last'.src = current
              /\ calls # <<>> =>
                    \/ Rank(last.cmd) < Rank(last'.cmd)
                    \/ /\ Rank(last.cmd) = Rank(last'.cmd)
                       /\ last.cmd \in Neural
        /\ (pc' = "done" /\ exit' # 2 /\ ScenarioA') =>
              calls' = << Call("denoise", 0), Call("upscale_fallback", 0),
                          Call("final_encode", 0) >>]_vars

C13_Witness ==
    /\ ScenarioA /\ pc = "done" /\ exit = 0
    /\ calls = << Call("denoise", 0), Call("upscale_fallback", 0),
                  Call("final_encode", 0) >>
    /\ last.src = tmp_up
    /\ fs[RestorePath] > 0

(* C14: when the input path does not exist, each of the three scripts ends *)
(* with exit status 2 at its input check and has invoked no external       *)
(* process.                                                                *)
C14_MissingInputExits2 ==
    [][(pc = "validate" /\ fs[args.input] = Absent) =>
          (pc' = "done" /\ exit' = 2 /\ calls' = <<>>)]_vars

(* C15: the original input is never written or removed by a run, whatever  *)
(* its name is, and a stage that moves the current artifact moves it to a  *)
(* path other than the one its command read.                               *)
C15_InputIsNeverTouched ==
    [][PV =>
        /\ fs'[args.input] = fs[args.input]
        /\ current' # current => current' # last'.src]_vars

(* C16: the preview command reads the original input and nothing else;     *)
(* whether it succeeds or fails, the preview block leaves the current      *)
(* artifact and every file but the preview output as they were and hands   *)
(* over to the restore block when --restore is given; no later command     *)
(* reads the preview output.  preview.py reads its input only.             *)
C16_PreviewIsIndependent ==
    [][/\ (PV /\ pc = "preview") =>
             /\ current' = current /\ current' = args.input
             /\ exit' = Running
             /\ pc' = IF args.restore THEN "stabilize" ELSE "cleanup"
             /\ \A p \in Paths \ {PreviewPath} : fs'[p] = fs[p]
             /\ IF args.preview
                THEN /\ calls' = <<Call("preview", 0)>>
                     /\ last'.src = args.input
                ELSE calls' = <<>>
       /\ (calls' # calls /\ last'.cmd = "preview") => last'.src = args.input
       /\ (calls' # calls /\ last'.cmd # "preview") => last'.src # PreviewPath]_vars

C16_Witness ==
    /\ PV /\ args.preview /\ args.restore
    /\ pc = "stabilize" /\ current = args.input
    /\ last.cmd = "preview" /\ last.rc = "fail"
    /\ fs[PreviewPath] = Absent

(* C17: no external process can hold a run of process_video.py forever:   *)
(* the run is never stuck before cleanup has finished, i.e. in every state *)
(* it has either terminated or has a next step to take.                    *)
C17_NeverStuck ==
    (PV /\ pc # "done") => ENABLED NextHang

(* what safe_run hands back to its caller for a command that ended as rc *)
Returned(rc) == safe_run([rc |-> rc, wrote |-> Absent])

(* C18: the command runner reports success, a missing tool and a failed    *)
(* tool as three different results: what it returned for the last command  *)
(* differs from what it returns for either of the other two outcomes.      *)
C18_ThreeOutcomes ==
    (PV /\ last.rc \in {"ok", "missing", "fail"}) =>
        \A r \in {"ok", "missing", "fail"} \ {last.rc} :
            Returned(r) # Returned(last.rc)

(* the last invocation reported success and its output path exists *)
LastSucceeded == last.rc = "ok" /\ fs[Dst(last.cmd)] # Absent

SameStage == last.cmd \in Neural /\ Rank(last.cmd) = Rank(last'.cmd)

(* C19 as stated: within one execution of the upscale or interpolate       *)
(* stage only the first candidate that exists is invoked; every neural     *)
(* command of the stage uses that one candidate, and none is invoked when  *)
(* no candidate exists.                                                    *)
C19_OnlyFirstCandidate ==
    [][(PV /\ calls' # calls /\ last'.cmd \in Neural) =>
          /\ found' >= 1
          /\ SameStage => last'.cand = last.cand]_vars

(* C19 amended: the candidates are probed in list order and every one that *)
(* exists is invoked, in that order, until one of them succeeds (exit 0    *)
(* and the output path exists); after a success the stage invokes nothing  *)
(* more, neither a later candidate nor the ffmpeg fallback; when no        *)
(* candidate exists no neural command is invoked.                          *)
C19_CandidatesUntilSuccess ==
    [][(PV /\ calls' # calls) =>
          /\ last'.cmd \in Neural =>
                /\ found' >= 1
                /\ SameStage => (last'.cand >= last.cand /\ ~LastSucceeded)
          /\ (last'.cmd = "upscale_fallback" /\ last.cmd = "realesrgan")
                => ~LastSucceeded]_vars

C19_Witness ==
    /\ PV /\ pc = "interpolate"
    /\ Count("realesrgan") = 2
    /\ last.cmd = "realesrgan" /\ last.cand > 1 /\ LastSucceeded
    /\ current = tmp_up

(* the commands whose result is the result of a stage function *)
StageCmds ==
    {"vidstabtransform", "denoise", "color", "realesrgan",
     "upscale_fallback", "rife", "rife_alt"}

(* the stage function returned True for the last invocation: exit status 0 *)
(* and, for stabilize, Real-ESRGAN and RIFE, an output path that exists    *)
StageReported ==
    /\ last.cmd \in StageCmds
    /\ last.rc = "ok"
    /\ last.cmd \in ({"vidstabtransform"} \cup Neural)
          => fs[Dst(last.cmd)] # Absent

(* C20: in process_video.py the current artifact starts as the input and   *)
(* moves only when an enabled stage reports success, and then to that      *)
(* stage's output; every reported success moves it; final-encode reads the *)
(* current artifact and leaves it alone.  So at final-encode the current   *)
(* artifact is the output of the latest stage that reported success, or    *)
(* the input, never the output of a disabled or failed stage.              *)
C20_CurrentIsLatestSuccess ==
    [][PV =>
        /\ pc = "validate" => current = args.input
        /\ current' # current =>
              /\ calls' # calls
              /\ StageReported'
              /\ last'.cmd \notin DisabledCmds
              /\ current' = Dst(last'.cmd)
        /\ (calls' # calls /\ StageReported') => current' = Dst(last'.cmd)
        /\ (calls' # calls /\ last'.cmd = "final_encode") =>
              /\ last'.src = current /\ current' = current
              /\ current \in {args.input} \cup
                             {Dst(c) : c \in StageCmds \ DisabledCmds}]_vars

C20_Witness ==
    /\ PV /\ pc = "cleanup"
    /\ args.denoise /\ args.color /\ ~args.upscale /\ ~args.interpolate
    /\ Invoked("denoise") /\ Invoked("color")
    /\ last.cmd = "final_encode" /\ last.src = tmp_deno

====
